---- MODULE Spec2Model ----
(***************************************************************************)
(* Duplex Studio (src/types.ts): the page-sequence model of the App        *)
(* component (load, drag-and-drop move, bulk delete, delete by id, undo),  *)
(* the range parser of the bulk-delete box, and the imposition planner     *)
(* that turns the current sequence into sheets of four quadrants.          *)
(***************************************************************************)
EXTENDS Integers, Sequences, FiniteSets, TLC

VARIABLES
    file,          \* useState<File | null>: the loaded source, or NoFile
    pages,         \* useState<PageItem[]>: the current sequence
    history,       \* useState<PageItem[][]>: the undo snapshots, oldest first
    draggedIndex,  \* useState<number | null>: index set by onDragStart
    processState,  \* useState: isProcessing, progress, error, resultUrl
    deleteInput,   \* useState(''): text of the bulk-delete box, a char sequence
    pending,       \* handleFileChange calls suspended at their awaits
    insertConfig,  \* useState({ count: 1, position: 'after', target: 1 })
    activeMode,    \* useState<AppMode>(AppMode.ORGANIZER)
    impositionEnabled, \* useState(true)
    exports,       \* handleProcess calls suspended at await processPdf(...)
    lastOp         \* the handler that ran last and its argument

vars ==
    <<file, pages, history, draggedIndex, processState, deleteInput, pending,
      insertConfig, activeMode, impositionEnabled, exports, lastOp>>

----------------------------------------------------------------------------
(* Bounds of the model *)

MaxPageCount == 3       \* largest page count of a source offered to the loader
MaxUndo == 1            \* Spec: edits are offered while the history is shorter
MaxPending == 1         \* Spec: loads that may be suspended at the same time
MaxMoveUndo == 2        \* SpecMove: edits are offered while the history is shorter
MaxLoadPending == 2     \* SpecLoad: loads that may be suspended at the same time
MaxPlanPageCount == 9   \* SpecPlan: largest page count of a source
MaxParsePageCount == 12 \* SpecParse: page count of the long document
MaxInputLen == 4        \* SpecParse: longest bulk-delete text
MaxInsertLength == 5    \* SpecInsert, SpecIds: inserts are offered up to this sequence length
MaxIdsUndo == 2         \* SpecIds: inserts are offered while the history is shorter
MaxExports == 1         \* SpecExport: exports that may be in flight at the same time
MaxExportPending == 2   \* SpecExport: loads that may be suspended at the same time
MaxOverlapExports == 2  \* SpecOverlap: exports that may be in flight at the same time
MaxSnapUndo == 1        \* SpecSnap: edits are offered while the history is shorter

(* Program constants *)

HistoryKeep == 19       \* prev.slice(-19)
SheetSize == 4          \* quadrants per sheet

----------------------------------------------------------------------------
(* Values *)

NoFile == [type |-> "null", pageCount |-> -1]
Null == [null |-> TRUE]
Undefined == [undefined |-> TRUE]
NoError == "null"
LoadErrorMessage == "Failed to load PDF. It might be encrypted or corrupted."

\* Math.random() of one page id: within one load the ids differ by their
\* index whatever the draws are, so one value is drawn from
Randoms == {"r1"}

\* A File offered to the input: its MIME type and what pdf-lib makes of its
\* bytes (pageCount -1: PDFDocument.load throws)
Sources(maxCount) ==
    {[type |-> "application/pdf", pageCount |-> c] : c \in -1..maxCount}
        \cup {[type |-> "text/plain", pageCount |-> -1]}

\* One element of initialPages (the object literal of handleFileChange)
OriginalPage(i, r) ==
    [id |-> <<"orig", i, r>>, type |-> "original", originalPageIndex |-> i,
     label |-> <<"Page", i + 1>>]

\* InitialPages with the page number (i + 1) stored as originalPageIndex
InitialPagesOneBased(count, rs) == [k \in 1..count |-> OriginalPage(k, rs[k])]

\* Array.from({ length: count }, (_, i) => ...)
InitialPages(count, rs) == [k \in 1..count |-> OriginalPage(k - 1, rs[k])]

IsPageItem(p) == "id" \in DOMAIN p

\* pages.map(page => ... page.id ...) throws on an undefined element and
\* React unmounts the component
Crashed == \E k \in 1..Len(pages) : ~IsPageItem(pages[k])

----------------------------------------------------------------------------
(* Array helpers, zero-based indices as in the source *)

\* arr.splice(i, 1) on a copy: the array left behind
SpliceOut(arr, i) ==
    IF i < Len(arr) THEN SubSeq(arr, 1, i) \o SubSeq(arr, i + 2, Len(arr)) ELSE arr

\* const [movedItem] = arr.splice(i, 1): the removed element, or undefined
SplicedItem(arr, i) == IF i < Len(arr) THEN arr[i + 1] ELSE Undefined

Min(a, b) == IF a < b THEN a ELSE b
Max(a, b) == IF a > b THEN a ELSE b

\* arr.splice(i, 0, x) on a copy
SpliceIn(arr, i, x) ==
    LET at == Min(i, Len(arr))
    IN SubSeq(arr, 1, at) \o <<x>> \o SubSeq(arr, at + 1, Len(arr))

\* MovePage exchanging the two items instead of moving one
MovePageSwap(arr, from, to) ==
    IF from < Len(arr) /\ to < Len(arr)
    THEN [k \in 1..Len(arr) |->
             IF k = from + 1 THEN arr[to + 1]
             ELSE IF k = to + 1 THEN arr[from + 1] ELSE arr[k]]
    ELSE arr

\* MovePage taking the target as an index of the array before the removal
MovePageAdjusted(arr, from, to) ==
    SpliceIn(SpliceOut(arr, from), IF from < to THEN to - 1 ELSE to,
             SplicedItem(arr, from))

\* updatedPages of onDrop: the item at from taken out, then put in at to
MovePage(arr, from, to) ==
    SpliceIn(SpliceOut(arr, from), to, SplicedItem(arr, from))

\* FilterIdx testing the one-based position instead of idx
RECURSIVE FilterIdxOneBased(_, _, _)
FilterIdxOneBased(arr, drop, k) ==
    IF k > Len(arr) THEN <<>>
    ELSE (IF k \in drop THEN <<>> ELSE <<arr[k]>>) \o FilterIdxOneBased(arr, drop, k + 1)

\* arr.filter((_, idx) => !drop.includes(idx)), from one-based position k on
RECURSIVE FilterIdx(_, _, _)
FilterIdx(arr, drop, k) ==
    IF k > Len(arr) THEN <<>>
    ELSE (IF (k - 1) \in drop THEN <<>> ELSE <<arr[k]>>) \o FilterIdx(arr, drop, k + 1)

\* prev.slice(-n)
SliceLast(arr, n) ==
    IF Len(arr) <= n THEN arr ELSE SubSeq(arr, Len(arr) - n + 1, Len(arr))

----------------------------------------------------------------------------
(* Strings are sequences of one-character strings.  The characters the     *)
(* model tells apart: decimal digits, ',', '-', '+', the space, and "a"    *)
(* for any other character (no "0x" prefix can be written with them).      *)

Digits == <<"0", "1", "2", "3", "4", "5", "6", "7", "8", "9">>
IsDigit(c) == \E d \in 1..10 : Digits[d] = c
DigitVal(c) == (CHOOSE d \in 1..10 : Digits[d] = c) - 1

\* s.includes(c)
Includes(s, c) == \E k \in 1..Len(s) : s[k] = c

\* s.split(sep), sep a single character
RECURSIVE Split(_, _)
Split(s, sep) ==
    IF ~Includes(s, sep) THEN <<s>>
    ELSE LET at == CHOOSE k \in 1..Len(s) :
                       s[k] = sep /\ \A j \in 1..(k - 1) : s[j] # sep
         IN <<SubSeq(s, 1, at - 1)>> \o Split(SubSeq(s, at + 1, Len(s)), sep)

RECURSIVE TrimStart(_)
TrimStart(s) ==
    IF Len(s) > 0 /\ s[1] = " " THEN TrimStart(SubSeq(s, 2, Len(s))) ELSE s

RECURSIVE TrimEnd(_)
TrimEnd(s) ==
    IF Len(s) > 0 /\ s[Len(s)] = " " THEN TrimEnd(SubSeq(s, 1, Len(s) - 1)) ELSE s

\* p.trim()
Trim(s) == TrimEnd(TrimStart(s))

\* the value of the longest prefix of decimal digits of s, given the value
\* acc of the digits read so far
RECURSIVE DigitsValue(_, _)
DigitsValue(s, acc) ==
    IF Len(s) > 0 /\ IsDigit(s[1])
    THEN DigitsValue(SubSeq(s, 2, Len(s)), 10 * acc + DigitVal(s[1]))
    ELSE acc

NaN == [nan |-> TRUE, val |-> 0]
Num(n) == [nan |-> FALSE, val |-> n]

\* parseInt(s): leading white space is skipped, then an optional sign, then
\* the longest run of digits; NaN when there is no digit there; whatever
\* follows the digits is ignored
parseInt(s) ==
    LET t == TrimStart(s)
        signed == Len(t) > 0 /\ t[1] \in {"+", "-"}
        body == IF signed THEN SubSeq(t, 2, Len(t)) ELSE t
        mag == DigitsValue(body, 0)
    IN IF Len(body) = 0 \/ ~IsDigit(body[1]) THEN NaN
       ELSE IF signed /\ t[1] = "-" THEN Num(0 - mag) ELSE Num(mag)

\* the indices one part adds to the Set (the body of parts.forEach)
PartIndices(part) ==
    IF Includes(part, "-")
    THEN LET nums == Split(part, "-")
             start == parseInt(nums[1])
             end == parseInt(nums[2])
         IN IF ~start.nan /\ ~end.nan
            THEN {i - 1 : i \in Min(start.val, end.val)..Max(start.val, end.val)}
            ELSE {}
    ELSE LET n == parseInt(part)
         IN IF ~n.nan THEN {n.val - 1} ELSE {}

\* the Set indices of parseDeleteRanges(input) when forEach has run
ParsedIndices(input) ==
    LET parts == [k \in DOMAIN Split(input, ",") |-> Trim(Split(input, ",")[k])]
    IN UNION {PartIndices(parts[k]) : k \in DOMAIN parts}

\* parseDeleteRanges(input), length being pages.length
parseDeleteRanges(input, length) ==
    {i \in ParsedIndices(input) : i >= 0 /\ i < length}

----------------------------------------------------------------------------
(* Imposition planner: calculateImposition of services/pdfService, which   *)
(* App imports; blocks of four consecutive descriptors, one sheet each,    *)
(* filled front-left, front-right, back-left, back-right, null where the   *)
(* sequence has run out.                                                   *)

\* the descriptor at zero-based position i, or null
ItemOrNull(seq, i) == IF i < Len(seq) THEN seq[i + 1] ELSE Null

\* SheetCount leaving out a last sheet that is not full
SheetCountFullOnly(n) == n \div SheetSize

SheetCount(n) == (n + SheetSize - 1) \div SheetSize

\* calculateImposition filling each sheet leaf by leaf: front-left, then
\* back-left, then front-right, then back-right
calculateImpositionByLeaf(seq) ==
    [s \in 1..SheetCount(Len(seq)) |->
        [sheetIndex |-> s - 1,
         front |-> [left |-> ItemOrNull(seq, SheetSize * (s - 1)),
                    right |-> ItemOrNull(seq, SheetSize * (s - 1) + 2)],
         back |-> [left |-> ItemOrNull(seq, SheetSize * (s - 1) + 1),
                   right |-> ItemOrNull(seq, SheetSize * (s - 1) + 3)]]]

calculateImposition(seq) ==
    [s \in 1..SheetCount(Len(seq)) |->
        [sheetIndex |-> s - 1,
         front |-> [left |-> ItemOrNull(seq, SheetSize * (s - 1)),
                    right |-> ItemOrNull(seq, SheetSize * (s - 1) + 1)],
         back |-> [left |-> ItemOrNull(seq, SheetSize * (s - 1) + 2),
                   right |-> ItemOrNull(seq, SheetSize * (s - 1) + 3)]]]

\* useMemo(() => calculateImposition(pages), [pages])
impositionPreview == calculateImposition(pages)

----------------------------------------------------------------------------
(* State *)

IdleProcessState ==
    [isProcessing |-> FALSE, progress |-> 0, error |-> NoError, resultUrl |-> NoError]

Op(name, arg) == [op |-> name, arg |-> arg]

Init ==
    /\ file = NoFile
    /\ pages = <<>>
    /\ history = <<>>
    /\ draggedIndex = -1
    /\ processState = IdleProcessState
    /\ deleteInput = <<>>
    /\ pending = <<>>
    /\ insertConfig = [count |-> 1, position |-> "after", target |-> 1]
    /\ activeMode = "ORGANIZER"
    /\ impositionEnabled = TRUE
    /\ exports = <<>>
    /\ lastOp = Op("init", -1)

\* PushHistory without the slice
PushHistoryUnbounded(h, p) == Append(h, p)

\* [...prev.slice(-19), pages]
PushHistory(h, p) == Append(SliceLast(h, HistoryKeep), p)

\* saveToHistory(newPages)
saveToHistory(newPages) ==
    /\ history' = PushHistory(history, pages)
    /\ pages' = newPages

\* UndoPages taking the oldest snapshot
UndoPagesOldest(h, p) == IF Len(h) = 0 THEN p ELSE h[1]

\* the sequence undo() makes current: history[history.length - 1], or the
\* current one left alone when the history is empty
UndoPages(h, p) == IF Len(h) = 0 THEN p ELSE h[Len(h)]

\* UndoHistory dropping the oldest snapshot
UndoHistoryDropOldest(h) == IF Len(h) = 0 THEN h ELSE SubSeq(h, 2, Len(h))

\* prevHistory.slice(0, -1)
UndoHistory(h) == IF Len(h) = 0 THEN h ELSE SubSeq(h, 1, Len(h) - 1)

\* undo(), the button of the organizer tab
undo ==
    /\ ~Crashed
    /\ file # NoFile
    /\ activeMode = "ORGANIZER"
    /\ pages' = UndoPages(history, pages)
    /\ history' = UndoHistory(history)
    /\ lastOp' = Op("undo", -1)
    /\ UNCHANGED <<file, draggedIndex, processState, deleteInput, pending, insertConfig,
                 activeMode, impositionEnabled, exports>>

\* handleFileChange up to its first await (the file input is rendered only
\* while file is null); at most maxPending calls are suspended at a time
handleFileChange(selected, maxPending) ==
    /\ ~Crashed
    /\ file = NoFile
    /\ IF selected.type = "application/pdf"
       THEN /\ Len(pending) < maxPending
            /\ pending' = Append(pending, selected)
       ELSE UNCHANGED pending
    /\ lastOp' = Op("select", -1)
    /\ UNCHANGED <<file, pages, history, draggedIndex, processState, deleteInput, insertConfig,
                 activeMode, impositionEnabled, exports>>

\* LoadSucceeds without setHistory([])
LoadSucceedsKeepingHistory(k) ==
    /\ ~Crashed
    /\ k \in 1..Len(pending)
    /\ pending[k].pageCount >= 0
    /\ \E rs \in [1..pending[k].pageCount -> Randoms] :
           pages' = InitialPages(pending[k].pageCount, rs)
    /\ file' = pending[k]
    /\ processState' = IdleProcessState
    /\ pending' = SpliceOut(pending, k - 1)
    /\ lastOp' = Op("loadOk", pending[k].pageCount)
    /\ UNCHANGED <<history, draggedIndex, deleteInput, insertConfig,
                   activeMode, impositionEnabled, exports>>

\* handleFileChange resumed: PDFDocument.load returns, the try block runs
\* to its end
LoadSucceeds(k) ==
    /\ ~Crashed
    /\ k \in 1..Len(pending)
    /\ pending[k].pageCount >= 0
    /\ \E rs \in [1..pending[k].pageCount -> Randoms] :
           pages' = InitialPages(pending[k].pageCount, rs)
    /\ file' = pending[k]
    /\ history' = <<>>
    /\ processState' = IdleProcessState
    /\ pending' = SpliceOut(pending, k - 1)
    /\ lastOp' = Op("loadOk", pending[k].pageCount)
    /\ UNCHANGED <<draggedIndex, deleteInput, insertConfig,
                 activeMode, impositionEnabled, exports>>

\* handleFileChange resumed: PDFDocument.load throws, the catch block runs
LoadFails(k) ==
    /\ ~Crashed
    /\ k \in 1..Len(pending)
    /\ pending[k].pageCount < 0
    /\ processState' = [processState EXCEPT !.error = LoadErrorMessage]
    /\ pending' = SpliceOut(pending, k - 1)
    /\ lastOp' = Op("loadFail", -1)
    /\ UNCHANGED <<file, pages, history, draggedIndex, deleteInput, insertConfig,
                 activeMode, impositionEnabled, exports>>

\* onDragStart(e, index), index a rendered tile
onDragStart(index) ==
    /\ ~Crashed
    /\ file # NoFile
    /\ activeMode = "ORGANIZER"
    /\ index \in 0..(Len(pages) - 1)
    /\ draggedIndex' = index
    /\ lastOp' = Op("dragStart", -1)
    /\ UNCHANGED <<file, pages, history, processState, deleteInput, pending, insertConfig,
                 activeMode, impositionEnabled, exports>>

\* onDrop splicing pages itself instead of a copy: the snapshot pushed and
\* the sequence of an export started on that array change with it
onDropInPlace(targetIndex, maxUndo) ==
    /\ ~Crashed
    /\ file # NoFile
    /\ activeMode = "ORGANIZER"
    /\ targetIndex \in 0..(Len(pages) - 1)
    /\ IF draggedIndex = -1 \/ draggedIndex = targetIndex
       THEN UNCHANGED <<pages, history, draggedIndex, exports>>
       ELSE /\ Len(history) < maxUndo
            /\ pages' = MovePage(pages, draggedIndex, targetIndex)
            /\ history' = PushHistory(history, pages')
            /\ exports' = [k \in 1..Len(exports) |->
                               IF exports[k].pages = pages
                               THEN [exports[k] EXCEPT !.pages = pages']
                               ELSE exports[k]]
            /\ draggedIndex' = -1
    /\ lastOp' = Op("drop", targetIndex)
    /\ UNCHANGED <<file, processState, deleteInput, pending, insertConfig,
                   activeMode, impositionEnabled>>

\* onDrop(e, targetIndex), targetIndex a rendered tile; whatever is dragged
\* over the tile drops on it, dragged from a tile or not
onDrop(targetIndex, maxUndo) ==
    /\ ~Crashed
    /\ file # NoFile
    /\ activeMode = "ORGANIZER"
    /\ targetIndex \in 0..(Len(pages) - 1)
    /\ IF draggedIndex = -1 \/ draggedIndex = targetIndex
       THEN UNCHANGED <<pages, history, draggedIndex>>
       ELSE /\ Len(history) < maxUndo
            /\ saveToHistory(MovePage(pages, draggedIndex, targetIndex))
            /\ draggedIndex' = -1
    /\ lastOp' = Op("drop", targetIndex)
    /\ UNCHANGED <<file, processState, deleteInput, pending, insertConfig,
                 activeMode, impositionEnabled, exports>>

\* the delete button of the tile at index:
\* saveToHistory(pages.filter(p => p.id !== page.id))
deleteById(index, maxUndo) ==
    /\ ~Crashed
    /\ file # NoFile
    /\ activeMode = "ORGANIZER"
    /\ index \in 0..(Len(pages) - 1)
    /\ Len(history) < maxUndo
    /\ saveToHistory(SelectSeq(pages, LAMBDA p : p.id # pages[index + 1].id))
    /\ lastOp' = Op("deleteById", index)
    /\ UNCHANGED <<file, draggedIndex, processState, deleteInput, pending, insertConfig,
                 activeMode, impositionEnabled, exports>>

\* onChange of the bulk-delete box: setDeleteInput(e.target.value)
setDeleteInput(text) ==
    /\ ~Crashed
    /\ file # NoFile
    /\ activeMode = "ORGANIZER"
    /\ deleteInput' = text
    /\ lastOp' = Op("type", -1)
    /\ UNCHANGED <<file, pages, history, draggedIndex, processState, pending, insertConfig,
                 activeMode, impositionEnabled, exports>>

\* handleBulkDelete (the button is disabled while deleteInput is empty)
handleBulkDelete(maxUndo) ==
    /\ ~Crashed
    /\ file # NoFile
    /\ activeMode = "ORGANIZER"
    /\ deleteInput # <<>>
    /\ LET toDelete == parseDeleteRanges(deleteInput, Len(pages))
       IN IF toDelete = {}
          THEN UNCHANGED <<pages, history, deleteInput>>
          ELSE /\ Len(history) < maxUndo
               /\ saveToHistory(FilterIdx(pages, toDelete, 1))
               /\ deleteInput' = <<>>
    /\ lastOp' = Op("bulkDelete", -1)
    /\ UNCHANGED <<file, draggedIndex, processState, pending, insertConfig,
                 activeMode, impositionEnabled, exports>>

\* Date.now() as read by one call of handleInsertBlank: two calls may read
\* the same millisecond
Times == {1, 2}

\* BlankPage giving the blank a page index as well
BlankPageIndexed(t, i) ==
    [id |-> <<"blank", t, i>>, type |-> "blank", originalPageIndex |-> i,
     label |-> <<"Blank Page">>]

\* { id: `blank-${Date.now()}-${i}`, type: 'blank', label: 'Blank Page' }
BlankPage(t, i) ==
    [id |-> <<"blank", t, i>>, type |-> "blank", label |-> <<"Blank Page">>]

\* Array.from({ length: count }, (_, i) => ...): a length below 1 gives []
NewBlanks(count, t) == [i \in 1..Max(count, 0) |-> BlankPage(t, i - 1)]

TargetIdxIgnoringPosition(length, cfg) == Max(0, Min(length, cfg.target))

\* Math.max(0, Math.min(pages.length, target - (position === 'before' ? 1 : 0)))
TargetIdx(length, cfg) ==
    Max(0, Min(length, cfg.target - (IF cfg.position = "before" THEN 1 ELSE 0)))

\* newPages = [...pages]; newPages.splice(targetIdx, 0, ...newBlanks)
InsertedPages(arr, cfg, t) ==
    LET targetIdx == TargetIdx(Len(arr), cfg)
    IN  SubSeq(arr, 1, targetIdx) \o NewBlanks(cfg.count, t)
            \o SubSeq(arr, targetIdx + 1, Len(arr))

\* parseInt(e.target.value) || 1: NaN and 0 are falsy
ParseIntOrOne(text) ==
    LET n == parseInt(text)
    IN  IF n.nan \/ n.val = 0 THEN 1 ELSE n.val

\* the Count box: setInsertConfig({ ...insertConfig, count: parseInt(value) || 1 })
setInsertCount(text) ==
    /\ ~Crashed
    /\ file # NoFile
    /\ activeMode = "ORGANIZER"
    /\ insertConfig' = [insertConfig EXCEPT !.count = ParseIntOrOne(text)]
    /\ lastOp' = Op("insertCount", -1)
    /\ UNCHANGED <<file, pages, history, draggedIndex, processState, deleteInput,
                   pending, activeMode, impositionEnabled, exports>>

\* the Ref. Page # box: setInsertConfig({ ...insertConfig, target: parseInt(value) || 1 })
setInsertTarget(text) ==
    /\ ~Crashed
    /\ file # NoFile
    /\ activeMode = "ORGANIZER"
    /\ insertConfig' = [insertConfig EXCEPT !.target = ParseIntOrOne(text)]
    /\ lastOp' = Op("insertTarget", -1)
    /\ UNCHANGED <<file, pages, history, draggedIndex, processState, deleteInput,
                   pending, activeMode, impositionEnabled, exports>>

\* the BEFORE and AFTER buttons
setInsertPosition(position) ==
    /\ ~Crashed
    /\ file # NoFile
    /\ activeMode = "ORGANIZER"
    /\ insertConfig' = [insertConfig EXCEPT !.position = position]
    /\ lastOp' = Op("insertPosition", -1)
    /\ UNCHANGED <<file, pages, history, draggedIndex, processState, deleteInput,
                   pending, activeMode, impositionEnabled, exports>>

\* handleInsertBlank(), the INSERT BLANKS button; t is what Date.now() reads
handleInsertBlank(t, maxUndo, maxLength) ==
    /\ ~Crashed
    /\ file # NoFile
    /\ activeMode = "ORGANIZER"
    /\ Len(history) < maxUndo
    /\ Len(pages) + Max(insertConfig.count, 0) <= maxLength
    /\ saveToHistory(InsertedPages(pages, insertConfig, t))
    /\ lastOp' = Op("insertBlank", t)
    /\ UNCHANGED <<file, draggedIndex, processState, deleteInput, pending,
                   insertConfig, activeMode, impositionEnabled, exports>>

\* the tabs of the header: the imposition tab exists while imposition is on
Tabs == {"ORGANIZER", "EXPORT"} \cup (IF impositionEnabled THEN {"IMPOSITION"} ELSE {})

\* a tab button: setActiveMode(tab.mode)
setActiveMode(mode) ==
    /\ ~Crashed
    /\ file # NoFile
    /\ mode \in Tabs
    /\ activeMode' = mode
    /\ lastOp' = Op("tab", -1)
    /\ UNCHANGED <<file, pages, history, draggedIndex, processState, deleteInput,
                   pending, insertConfig, impositionEnabled, exports>>

\* toggleImposition without the effect of lines 116-121
toggleImpositionOnly ==
    /\ ~Crashed
    /\ file # NoFile
    /\ impositionEnabled' = ~impositionEnabled
    /\ lastOp' = Op("toggle", IF activeMode = "IMPOSITION" THEN 1 ELSE 0)
    /\ UNCHANGED <<file, pages, history, draggedIndex, processState, deleteInput,
                   pending, insertConfig, activeMode, exports>>

\* the IMPOSITION ON/OFF button, with the effect that leaves the imposition
\* tab once imposition is off; lastOp tells whether it was clicked on that tab
toggleImposition ==
    /\ ~Crashed
    /\ file # NoFile
    /\ impositionEnabled' = ~impositionEnabled
    /\ activeMode' = IF ~impositionEnabled' /\ activeMode = "IMPOSITION"
                     THEN "ORGANIZER" ELSE activeMode
    /\ lastOp' = Op("toggle", IF activeMode = "IMPOSITION" THEN 1 ELSE 0)
    /\ UNCHANGED <<file, pages, history, draggedIndex, processState, deleteInput,
                   pending, insertConfig, exports>>

\* what processPdf resolves to: an object URL of the written document
ResultUrl(useImposition) == IF useImposition THEN "blob:imposed" ELSE "blob:sequential"

\* percentages processPdf reports through its callback
Percents == {50, 100}

\* err.message of a rejected processPdf; the empty text stands for none
ErrorMessages == {"", "Invalid PDF structure"}

UnknownErrorMessage == "Unknown error occurred during PDF generation."

\* handleProcess(useImposition) up to its await: the export buttons
handleProcess(useImposition, maxExports) ==
    /\ ~Crashed
    /\ file # NoFile
    /\ activeMode = "EXPORT"
    /\ useImposition => impositionEnabled
    /\ Len(exports) < maxExports
    /\ processState' =
           [isProcessing |-> TRUE, progress |-> 0, error |-> NoError, resultUrl |-> NoError]
    /\ exports' = Append(exports, [useImposition |-> useImposition, file |-> file,
                                   pages |-> pages, reported |-> 0])
    /\ lastOp' = Op("process", IF useImposition THEN 1 ELSE 0)
    /\ UNCHANGED <<file, pages, history, draggedIndex, deleteInput, pending,
                   insertConfig, activeMode, impositionEnabled>>

\* what the k-th export in flight may report next: processPdf reports
\* increasing percentages
Reports(k) == {progress \in Percents : progress > exports[k].reported}

\* the progress callback of the k-th export in flight:
\* setProcessState(prev => ({ ...prev, progress }))
ExportProgress(k, progress) ==
    /\ k \in 1..Len(exports)
    /\ progress \in Reports(k)
    /\ processState' = [processState EXCEPT !.progress = progress]
    /\ exports' = [exports EXCEPT ![k].reported = progress]
    /\ lastOp' = Op("progress", progress)
    /\ UNCHANGED <<file, pages, history, draggedIndex, deleteInput, pending,
                   insertConfig, activeMode, impositionEnabled>>

\* handleProcess resumed after processPdf resolved
ExportSucceeds(k) ==
    /\ k \in 1..Len(exports)
    /\ processState' =
           [isProcessing |-> FALSE, progress |-> 100, error |-> NoError,
            resultUrl |-> ResultUrl(exports[k].useImposition)]
    /\ exports' = SpliceOut(exports, k - 1)
    /\ lastOp' = Op("exportOk", -1)
    /\ UNCHANGED <<file, pages, history, draggedIndex, deleteInput, pending,
                   insertConfig, activeMode, impositionEnabled>>

\* handleProcess resumed in its catch block after processPdf rejected
ExportFails(k, message) ==
    /\ k \in 1..Len(exports)
    /\ processState' =
           [isProcessing |-> FALSE, progress |-> 0,
            error |-> IF message = "" THEN UnknownErrorMessage ELSE message,
            resultUrl |-> NoError]
    /\ exports' = SpliceOut(exports, k - 1)
    /\ lastOp' = Op("exportFail", -1)
    /\ UNCHANGED <<file, pages, history, draggedIndex, deleteInput, pending,
                   insertConfig, activeMode, impositionEnabled>>

----------------------------------------------------------------------------
(* Spec: loading and the organizer's moves, deletes and undo, from the     *)
(* state after construction                                               *)

\* texts typed into the bulk-delete box in Spec
DeleteInputs ==
    { <<"2">>, <<"3", "-", "2">>, <<"9">>, <<"1", "a">> }

Next ==
    \/ \E s \in Sources(MaxPageCount) : handleFileChange(s, MaxPending)
    \/ \E k \in 1..Len(pending) : LoadSucceeds(k)
    \/ \E k \in 1..Len(pending) : LoadFails(k)
    \/ \E i \in 0..(Len(pages) - 1) : onDragStart(i)
    \/ \E i \in 0..(Len(pages) - 1) : onDrop(i, MaxUndo)
    \/ \E i \in 0..(Len(pages) - 1) : deleteById(i, MaxUndo)
    \/ \E text \in DeleteInputs : setDeleteInput(text)
    \/ handleBulkDelete(MaxUndo)
    \/ undo

Spec == Init /\ [][Next]_vars

(* SpecMove: loading, drag and drop, the per-page delete and undo, with a  *)
(* deeper history                                                          *)

NextMove ==
    \/ \E s \in Sources(MaxPageCount) : handleFileChange(s, MaxPending)
    \/ \E k \in 1..Len(pending) : LoadSucceeds(k)
    \/ \E i \in 0..(Len(pages) - 1) : onDragStart(i)
    \/ \E i \in 0..(Len(pages) - 1) : onDrop(i, MaxMoveUndo)
    \/ \E i \in 0..(Len(pages) - 1) : deleteById(i, MaxMoveUndo)
    \/ undo

SpecMove == Init /\ [][NextMove]_vars

(* SpecLoad: overlapping loads, with drags and per-page deletes between    *)
(* them                                                                    *)

NextLoad ==
    \/ \E s \in Sources(MaxPageCount) : handleFileChange(s, MaxLoadPending)
    \/ \E k \in 1..Len(pending) : LoadSucceeds(k)
    \/ \E k \in 1..Len(pending) : LoadFails(k)
    \/ \E i \in 0..(Len(pages) - 1) : onDragStart(i)
    \/ \E i \in 0..(Len(pages) - 1) : deleteById(i, MaxUndo)
    \/ undo

SpecLoad == Init /\ [][NextLoad]_vars

(* SpecPlan: longer documents with per-page deletes and undo, for the      *)
(* planner                                                                 *)

NextPlan ==
    \/ \E s \in Sources(MaxPlanPageCount) : handleFileChange(s, MaxPending)
    \/ \E k \in 1..Len(pending) : LoadSucceeds(k)
    \/ \E i \in 0..(Len(pages) - 1) : deleteById(i, MaxMoveUndo)
    \/ undo

SpecPlan == Init /\ [][NextPlan]_vars

(* SpecInsert: blank pages are inserted for every count, anchor and       *)
(* position the boxes can hold, with per-page deletes and undo            *)

\* texts typed into the Count box
CountInputs == { <<"2">>, <<"0">>, <<"-", "2">> }

\* texts typed into the Ref. Page # box
TargetInputs == { <<"2">>, <<"9">>, <<"-", "1">>, <<"a">> }

NextInsert ==
    \/ \E s \in Sources(MaxPageCount) : handleFileChange(s, MaxPending)
    \/ \E k \in 1..Len(pending) : LoadSucceeds(k)
    \/ \E text \in CountInputs : setInsertCount(text)
    \/ \E text \in TargetInputs : setInsertTarget(text)
    \/ \E position \in {"before", "after"} : setInsertPosition(position)
    \/ \E t \in Times : handleInsertBlank(t, MaxUndo, MaxInsertLength)
    \/ undo

SpecInsert == Init /\ [][NextInsert]_vars

(* SpecIds: several inserts in a row, one blank each, then per-page       *)
(* deletes and undo                                                       *)

NextIds ==
    \/ \E s \in Sources(MaxPageCount) : handleFileChange(s, MaxPending)
    \/ \E k \in 1..Len(pending) : LoadSucceeds(k)
    \/ setInsertTarget(<<"2">>)
    \/ \E position \in {"before", "after"} : setInsertPosition(position)
    \/ \E t \in Times : handleInsertBlank(t, MaxIdsUndo, MaxInsertLength)
    \/ \E i \in 0..(Len(pages) - 1) : deleteById(i, MaxIdsUndo + 1)
    \/ undo

SpecIds == Init /\ [][NextIds]_vars

(* SpecHist: a document of one or two pages is rearranged until the      *)
(* history is full and beyond, then edited once more in any of the four   *)
(* ways, then undone step by step and past the empty history              *)

HistSources == {s \in Sources(MaxPageCount) : s.pageCount \in 1..2}

\* no per-page delete, bulk delete, insert or undo has run yet
Rearranging == lastOp.op \in {"init", "select", "loadOk", "dragStart", "drop", "type"}

NextHist ==
    \/ \E s \in HistSources : handleFileChange(s, MaxPending)
    \/ \E k \in 1..Len(pending) : LoadSucceeds(k)
    \/ Rearranging /\ \E i \in 0..(Len(pages) - 1) : onDragStart(i)
    \/ Rearranging /\ \E i \in 0..(Len(pages) - 1) : onDrop(i, HistoryKeep + 2)
    \/ Rearranging /\ \E i \in 0..(Len(pages) - 1) : deleteById(i, HistoryKeep + 2)
    \/ Rearranging /\ setDeleteInput(<<"2">>)
    \/ Rearranging /\ handleBulkDelete(HistoryKeep + 2)
    \/ Rearranging /\ \E t \in Times : handleInsertBlank(t, HistoryKeep + 2, MaxInsertLength)
    \/ undo

SpecHist == Init /\ [][NextHist]_vars

(* SpecExport: exports of either kind with their progress reports,       *)
(* between overlapping loads, tab and print-mode switches, per-page       *)
(* deletes and undo                                                       *)

NextExport ==
    \/ \E s \in Sources(MaxPageCount) : handleFileChange(s, MaxExportPending)
    \/ \E k \in 1..Len(pending) : LoadSucceeds(k)
    \/ \E k \in 1..Len(pending) : LoadFails(k)
    \/ \E mode \in {"ORGANIZER", "IMPOSITION", "EXPORT"} : setActiveMode(mode)
    \/ toggleImposition
    \/ \E useImposition \in BOOLEAN : handleProcess(useImposition, MaxExports)
    \/ \E k \in 1..Len(exports), progress \in Percents : ExportProgress(k, progress)
    \/ \E k \in 1..Len(exports) : ExportSucceeds(k)
    \/ \E k \in 1..Len(exports), message \in ErrorMessages : ExportFails(k, message)
    \/ \E i \in 0..(Len(pages) - 1) : deleteById(i, MaxUndo)
    \/ undo

SpecExport == Init /\ [][NextExport]_vars

(* SpecOverlap: the export buttons stay reachable while an export is in   *)
(* flight (the processing overlay covers them but does not disable them), *)
(* so exports are started one over the other                              *)

NextOverlap ==
    \/ \E s \in Sources(MaxPageCount) : handleFileChange(s, MaxPending)
    \/ \E k \in 1..Len(pending) : LoadSucceeds(k)
    \/ \E mode \in {"ORGANIZER", "IMPOSITION", "EXPORT"} : setActiveMode(mode)
    \/ \E useImposition \in BOOLEAN : handleProcess(useImposition, MaxOverlapExports)
    \/ \E k \in 1..Len(exports), progress \in Percents : ExportProgress(k, progress)
    \/ \E k \in 1..Len(exports) : ExportSucceeds(k)
    \/ \E k \in 1..Len(exports), message \in ErrorMessages : ExportFails(k, message)

SpecOverlap == Init /\ [][NextOverlap]_vars

(* SpecSnap: a loaded document of one or two pages is edited in every way *)
(* and undone while an export started earlier is still in flight          *)

SnapPageCounts == {1, 2}

InitSnap ==
    /\ \E c \in SnapPageCounts :
           /\ file = [type |-> "application/pdf", pageCount |-> c]
           /\ pages = InitialPages(c, [k \in 1..c |-> "r1"])
    /\ history = <<>>
    /\ draggedIndex = -1
    /\ processState = IdleProcessState
    /\ deleteInput = <<>>
    /\ pending = <<>>
    /\ insertConfig = [count |-> 1, position |-> "after", target |-> 1]
    /\ activeMode = "ORGANIZER"
    /\ impositionEnabled = TRUE
    /\ exports = <<>>
    /\ lastOp = Op("loadOk", file.pageCount)

NextSnap ==
    \/ \E mode \in {"ORGANIZER", "EXPORT"} : setActiveMode(mode)
    \/ handleProcess(FALSE, MaxExports)
    \/ \E k \in 1..Len(exports) : ExportSucceeds(k)
    \/ \E i \in 0..(Len(pages) - 1) : onDragStart(i)
    \/ \E i \in 0..(Len(pages) - 1) : onDrop(i, MaxSnapUndo)
    \/ \E i \in 0..(Len(pages) - 1) : deleteById(i, MaxSnapUndo)
    \/ setDeleteInput(<<"2">>)
    \/ handleBulkDelete(MaxSnapUndo)
    \/ handleInsertBlank(1, MaxSnapUndo, MaxInsertLength)
    \/ undo

SpecSnap == InitSnap /\ [][NextSnap]_vars

(* SpecMode: tabs and the print-mode switch around exports of either kind *)

NextMode ==
    \/ \E s \in Sources(MaxPageCount) : handleFileChange(s, MaxPending)
    \/ \E k \in 1..Len(pending) : LoadSucceeds(k)
    \/ \E mode \in {"ORGANIZER", "IMPOSITION", "EXPORT"} : setActiveMode(mode)
    \/ toggleImposition
    \/ \E useImposition \in BOOLEAN : handleProcess(useImposition, MaxExports)
    \/ \E k \in 1..Len(exports) : ExportSucceeds(k)
    \/ \E k \in 1..Len(exports), message \in ErrorMessages : ExportFails(k, message)

SpecMode == Init /\ [][NextMode]_vars

(* SpecParse: the bulk-delete box holds any text of the model's characters *)
(* up to MaxInputLen long, over an empty, a short and a long document      *)

Chars == {"0", "1", "2", "3", ",", "-", " ", "a"}

RECURSIVE Texts(_)
Texts(n) ==
    IF n = 0 THEN {<<>>}
    ELSE Texts(n - 1) \cup {Append(t, c) : t \in Texts(n - 1), c \in Chars}

ParsePageCounts == {0, MaxPageCount, MaxParsePageCount}

InitParse ==
    /\ \E c \in ParsePageCounts :
           /\ file = [type |-> "application/pdf", pageCount |-> c]
           /\ pages = InitialPages(c, [k \in 1..c |-> "r1"])
    /\ history = <<>>
    /\ draggedIndex = -1
    /\ processState = IdleProcessState
    /\ deleteInput \in Texts(MaxInputLen)
    /\ pending = <<>>
    /\ insertConfig = [count |-> 1, position |-> "after", target |-> 1]
    /\ activeMode = "ORGANIZER"
    /\ impositionEnabled = TRUE
    /\ exports = <<>>
    /\ lastOp = Op("type", -1)

NextParse == handleBulkDelete(MaxUndo)

SpecParse == InitParse /\ [][NextParse]_vars

----------------------------------------------------------------------------
(* Properties of the planner (SpecPlan) *)

\* the quadrants of one sheet in traversal order
Quadrants(sheet) ==
    <<sheet.front.left, sheet.front.right, sheet.back.left, sheet.back.right>>

RECURSIVE Traversal(_)
Traversal(sheets) ==
    IF Len(sheets) = 0 THEN <<>>
    ELSE Quadrants(Head(sheets)) \o Traversal(Tail(sheets))

DropNull(seq) == SelectSeq(seq, LAMBDA q : q # Null)

\* C1: reading the sheets of the planner in order, each front-left,
\* front-right, back-left, back-right, and dropping the empty quadrants,
\* gives exactly the current sequence, for every length from 0 on.
C1_TraversalReproducesSequence ==
    DropNull(Traversal(impositionPreview)) = pages

C1_Witness ==
    /\ Len(pages) = 7
    /\ Len(history) > 0
    /\ Len(impositionPreview) = 2

\* C2: a sequence of length n gives ceil(n/4) sheets; sheet b has
\* sheetIndex b and holds descriptors 4b .. 4b+3 in front-left, front-right,
\* back-left, back-right; empty quadrants occur only on the last sheet,
\* after its filled ones, and no sheet is empty.
C2_BlocksOfFour ==
    LET plan == impositionPreview
        n == Len(pages)
    IN /\ 4 * Len(plan) >= n
       /\ 4 * (Len(plan) - 1) < n
       /\ \A b \in 1..Len(plan) :
            /\ plan[b].sheetIndex = b - 1
            /\ \A q \in 1..4 :
                 Quadrants(plan[b])[q] =
                     IF 4 * (b - 1) + q <= n THEN pages[4 * (b - 1) + q] ELSE Null
            /\ Quadrants(plan[b])[1] # Null
            /\ \A q \in 1..3 :
                 Quadrants(plan[b])[q] = Null => Quadrants(plan[b])[q + 1] = Null
            /\ b < Len(plan) => \A q \in 1..4 : Quadrants(plan[b])[q] # Null

C2_Witness ==
    /\ Len(pages) = 6
    /\ Len(impositionPreview) = 2
    /\ impositionPreview[2].front.right # Null
    /\ impositionPreview[2].back.left = Null

\* the leaf cut from the left half of a sheet, front then back; mirrored
\* tells which back quadrant is printed behind the front-left one
LeftLeaf(sheet, mirrored) ==
    <<sheet.front.left, IF mirrored THEN sheet.back.right ELSE sheet.back.left>>

RightLeaf(sheet, mirrored) ==
    <<sheet.front.right, IF mirrored THEN sheet.back.left ELSE sheet.back.right>>

RECURSIVE LeftStack(_, _)
LeftStack(sheets, mirrored) ==
    IF Len(sheets) = 0 THEN <<>>
    ELSE LeftLeaf(Head(sheets), mirrored) \o LeftStack(Tail(sheets), mirrored)

RECURSIVE RightStack(_, _)
RightStack(sheets, mirrored) ==
    IF Len(sheets) = 0 THEN <<>>
    ELSE RightLeaf(Head(sheets), mirrored) \o RightStack(Tail(sheets), mirrored)

\* the right stack placed under the left stack, read leaf by leaf
CutAndStack(sheets, mirrored) ==
    LeftStack(sheets, mirrored) \o RightStack(sheets, mirrored)

\* C3: printed duplex, cut along the vertical midline, the left halves
\* stacked in sheet order on top of the right halves, the stack reads the
\* logical pages in sequential order (for one of the two ways the back
\* side can sit behind the front side).
C3_CutAndStackSequential ==
    \E mirrored \in BOOLEAN :
        DropNull(CutAndStack(impositionPreview, mirrored)) = pages

----------------------------------------------------------------------------
(* Properties of loading (SpecLoad) *)

\* C4: after a successful load of a source with pageCount pages the
\* sequence is exactly pageCount descriptors of kind original with source
\* page indices 0 .. pageCount-1 in order, whatever it was before.
C4_LoadYieldsOriginals ==
    lastOp.op = "loadOk" =>
        /\ Len(pages) = lastOp.arg
        /\ file.pageCount = lastOp.arg
        /\ \A k \in 1..Len(pages) :
             /\ IsPageItem(pages[k])
             /\ pages[k].type = "original"
             /\ pages[k].originalPageIndex = k - 1

C4_Witness ==
    /\ lastOp.op = "loadOk"
    /\ Len(pages) = 3
    /\ draggedIndex = 2
    /\ pending = <<>>

\* C5: a load whose source is unreadable or has a page count that is not
\* positive fails: the error message is set, the source does not become
\* the current file and the sequence is left empty.
C5_BadLoadFails ==
    /\ lastOp.op = "loadFail" =>
         /\ processState.error # NoError
         /\ file = NoFile => pages = <<>>
    /\ (lastOp.op = "loadOk" /\ lastOp.arg <= 0) =>
         /\ processState.error # NoError
         /\ file = NoFile
         /\ pages = <<>>

----------------------------------------------------------------------------
(* Properties of drag and drop (SpecMove) *)

InBounds(i) == i >= 0 /\ i < Len(pages)

\* a step of onDrop whose dragged and target indices differ and are both
\* in bounds
IsMoveStep ==
    /\ lastOp'.op = "drop"
    /\ InBounds(draggedIndex)
    /\ InBounds(lastOp'.arg)
    /\ draggedIndex # lastOp'.arg

\* C6: a move with fromIndex # toIndex, both in bounds, keeps the length,
\* puts the descriptor that was at fromIndex at toIndex, and leaves the
\* other descriptors in their relative order.
C6_MoveIsSingleItemMove ==
    [][IsMoveStep =>
          /\ Len(pages') = Len(pages)
          /\ pages'[lastOp'.arg + 1] = pages[draggedIndex + 1]
          /\ SpliceOut(pages', lastOp'.arg) = SpliceOut(pages, draggedIndex)
          /\ {pages'[k] : k \in 1..Len(pages')} = {pages[k] : k \in 1..Len(pages)}
      ]_vars

C6_Witness ==
    /\ lastOp.op = "drop"
    /\ Len(history) = 1
    /\ Len(pages) = 3
    /\ history[1][1] = pages[3]
    /\ history[1][2] = pages[1]
    /\ history[1][3] = pages[2]

\* C7: a drop whose dragged index equals its target, or whose dragged or
\* target index is outside [0, length), changes neither the sequence nor
\* the history and puts nothing but descriptors into the sequence.
C7_BadDropIsNoOp ==
    [][(/\ lastOp'.op = "drop"
        /\ \/ draggedIndex = lastOp'.arg
           \/ ~InBounds(draggedIndex)
           \/ ~InBounds(lastOp'.arg))
       => /\ pages' = pages
          /\ history' = history
          /\ \A k \in 1..Len(pages') : IsPageItem(pages'[k])
      ]_vars

\* C8: after move(i, j), move(j, i) gives back the original order.
C8_MoveBackRestores ==
    [][IsMoveStep => MovePage(pages', lastOp'.arg, draggedIndex) = pages]_vars

C8_Witness ==
    /\ lastOp.op = "drop"
    /\ Len(history) = 2
    /\ Len(pages) = 3
    /\ history[1] = pages
    /\ history[2] # pages

----------------------------------------------------------------------------
(* Properties of bulk delete and its parser (SpecParse) *)

\* the k-th smallest element of a set of numbers
KthSmallest(S, k) == CHOOSE i \in S : Cardinality({j \in S : j < i}) = k - 1

\* C9: bulk delete with the index set S removes exactly the descriptors at
\* the positions of S within [0, length) and keeps the others in order;
\* when no position of S is in bounds neither the sequence nor the history
\* changes.
C9_BulkDeleteRemovesExactly ==
    [][lastOp'.op = "bulkDelete" =>
          LET S == ParsedIndices(deleteInput)
              Kept == {i \in 0..(Len(pages) - 1) : i \notin S}
          IN /\ Len(pages') = Cardinality(Kept)
             /\ \A k \in 1..Len(pages') : pages'[k] = pages[KthSmallest(Kept, k) + 1]
             /\ Cardinality(Kept) = Len(pages) => pages' = pages /\ history' = history
      ]_vars

C9_Witness ==
    /\ lastOp.op = "bulkDelete"
    /\ Len(history) = 1
    /\ Len(history[1]) = 3
    /\ Len(pages) = 1
    /\ pages[1] = history[1][2]

\* a text of digits only, white space around it allowed
IsNumber(t) ==
    /\ Len(Trim(t)) > 0
    /\ \A k \in 1..Len(Trim(t)) : IsDigit(Trim(t)[k])

NumberOf(t) == DigitsValue(Trim(t), 0)

\* the indices the range grammar gives one token
TokenIndices(t) ==
    IF IsNumber(t) THEN {NumberOf(t) - 1}
    ELSE IF /\ Len(Split(t, "-")) = 2
            /\ IsNumber(Split(t, "-")[1])
            /\ IsNumber(Split(t, "-")[2])
         THEN LET a == NumberOf(Split(t, "-")[1])
                  b == NumberOf(Split(t, "-")[2])
              IN {i - 1 : i \in Min(a, b)..Max(a, b)}
         ELSE {}

GrammarIndices(input, length) ==
    {i \in UNION {TokenIndices(Split(input, ",")[k]) : k \in DOMAIN Split(input, ",")} :
        i >= 0 /\ i < length}

\* C10: the range parser gives the zero-based indices of the numbers n and
\* the ranges a-b of the comma-separated text, within [0, length); a token
\* that is neither a number nor number-hyphen-number contributes nothing.
C10_ParserFollowsGrammar ==
    parseDeleteRanges(deleteInput, Len(pages)) = GrammarIndices(deleteInput, Len(pages))

\* an insert step whose count is at least 1 and whose 1-based anchor names
\* a page of the sequence
IsAnchoredInsertStep ==
    /\ lastOp'.op = "insertBlank"
    /\ insertConfig.count >= 1
    /\ insertConfig.target \in 1..Len(pages)

\* the number of descriptors in front of the new blanks when they are put
\* immediately before or immediately after the 1-based anchor page
SlotAtAnchor(anchor, position) == IF position = "before" THEN anchor - 1 ELSE anchor

\* newSeq is oldSeq with count blank descriptors put in a row behind its
\* first slot descriptors, the old descriptors keeping their order
BlanksPutAt(oldSeq, newSeq, slot, count) ==
    /\ Len(newSeq) = Len(oldSeq) + count
    /\ \A k \in 1..slot : newSeq[k] = oldSeq[k]
    /\ \A k \in 1..count : newSeq[slot + k].type = "blank"
    /\ \A k \in (slot + 1)..Len(oldSeq) : newSeq[k + count] = oldSeq[k]

\* C11: an insert with count >= 1 and a 1-based anchor in [1, length] gives
\* length + count descriptors; the count new blanks are contiguous and sit
\* immediately before (BEFORE) or immediately after (AFTER) the anchor
\* page, and the descriptors that were there keep their relative order.
C11_InsertPutsBlanksAtAnchor ==
    [][IsAnchoredInsertStep =>
          BlanksPutAt(pages, pages',
                      SlotAtAnchor(insertConfig.target, insertConfig.position),
                      insertConfig.count)
      ]_vars

C11_Witness ==
    /\ lastOp.op = "insertBlank"
    /\ insertConfig = [count |-> 2, position |-> "before", target |-> 2]
    /\ Len(history) = 1
    /\ Len(history[1]) = 3
    /\ Len(pages) = 5
    /\ pages[1] = history[1][1]
    /\ pages[2].type = "blank"
    /\ pages[3].type = "blank"
    /\ pages[4] = history[1][2]

\* the anchor clamped into [1, length]
ClampedAnchor(anchor, length) == Max(1, Min(length, anchor))

\* C12: for every integer anchor and both positions, an insert into a
\* non-empty sequence puts its blanks where it puts them for the anchor
\* clamped into [1, length]: immediately before the clamped anchor page for
\* BEFORE and immediately after it for AFTER.
C12_InsertClampsAnchor ==
    [][(/\ lastOp'.op = "insertBlank"
        /\ insertConfig.count >= 1
        /\ Len(pages) >= 1)
       => BlanksPutAt(pages, pages',
                      SlotAtAnchor(ClampedAnchor(insertConfig.target, Len(pages)),
                                   insertConfig.position),
                      insertConfig.count)
      ]_vars

\* C13: an insert whose requested count is below 1 inserts exactly one
\* blank descriptor, never none.
C13_CountBelowOneInsertsOne ==
    [][(lastOp'.op = "insertBlank" /\ insertConfig.count < 1)
       => /\ Len(pages') = Len(pages) + 1
          /\ \E k \in 1..Len(pages') :
                 /\ pages'[k].type = "blank"
                 /\ SpliceOut(pages', k - 1) = pages
      ]_vars

\* C14: the per-page delete removes exactly one descriptor, the one of the
\* tile it was clicked on, and leaves all others in order.
C14_DeleteByIdRemovesOne ==
    [][lastOp'.op = "deleteById" =>
          /\ Len(pages') = Len(pages) - 1
          /\ pages' = SpliceOut(pages, lastOp'.arg)
      ]_vars

\* C15: in every reachable state no two descriptors of the current
\* sequence have the same id, blanks of separate inserts included.
C15_IdsAreUnique ==
    \A j, k \in 1..Len(pages) :
        (j # k /\ IsPageItem(pages[j]) /\ IsPageItem(pages[k]))
            => pages[j].id # pages[k].id

\* the descriptor has the optional field (sourceFileId?, originalPageIndex?)
Carries(p, field) == field \in DOMAIN p

\* the descriptors of the current sequence
Descriptors == {pages[k] : k \in {j \in 1..Len(pages) : IsPageItem(pages[j])}}

\* C16 as stated: every original, external or duplicate descriptor carries
\* both a source-document reference and a source page index, and every
\* blank carries neither.
C16_SourceFieldsAsClaimed ==
    \A p \in Descriptors :
        /\ p.type \in {"original", "external", "duplicate"}
               => Carries(p, "sourceFileId") /\ Carries(p, "originalPageIndex")
        /\ p.type = "blank"
               => ~Carries(p, "sourceFileId") /\ ~Carries(p, "originalPageIndex")

\* C16 (amended): every descriptor is an original or a blank; every
\* original carries a source page index and no source-document reference
\* (its document is the loaded file), and every blank carries neither.
C16_SourceFields ==
    \A p \in Descriptors :
        /\ p.type \in {"original", "blank"}
        /\ p.type = "original"
               => ~Carries(p, "sourceFileId") /\ Carries(p, "originalPageIndex")
        /\ p.type = "blank"
               => ~Carries(p, "sourceFileId") /\ ~Carries(p, "originalPageIndex")

C16_Witness ==
    /\ lastOp.op = "insertBlank"
    /\ \E p \in Descriptors : p.type = "original" /\ p.originalPageIndex = 2
    /\ \E p \in Descriptors : p.type = "blank"

\* a step of one of the four undoable edits that changes the sequence
IsMutationStep ==
    /\ lastOp'.op \in {"drop", "bulkDelete", "deleteById", "insertBlank"}
    /\ pages' # pages

\* the count-th to the last element of seq
DropFirst(seq, count) == [k \in 1..(Len(seq) - count) |-> seq[k + count]]

\* C17: the history never holds more than 20 snapshots; every undoable
\* mutation (move, bulk delete, per-page delete, insert) pushes the sequence
\* as it was before the mutation, and when the history already holds 20
\* the oldest snapshot is discarded and the 19 most recent are kept in
\* order.
C17_HistoryBoundedAndPushed ==
    /\ [](Len(history) <= 20)
    /\ [][IsMutationStep =>
             /\ history'[Len(history')] = pages
             /\ IF Len(history) < 20
                THEN /\ Len(history') = Len(history) + 1
                     /\ \A k \in 1..Len(history) : history'[k] = history[k]
                ELSE /\ Len(history') = 20
                     /\ \A k \in 1..19 : history'[k] = history[k + 1]
         ]_vars

C17_Witness ==
    /\ lastOp.op = "insertBlank"
    /\ Len(history) = 20
    /\ Len(pages) = 3
    /\ history[20] # history[19]
    /\ history[19] # history[18]
    /\ history[1] # history[20]

\* C18: one undoable mutation immediately followed by undo gives back the
\* sequence of before the mutation and, when the history held fewer than 20
\* snapshots, the history of before the mutation.
C18_UndoRevertsMutation ==
    [][IsMutationStep =>
          /\ UndoPages(history', pages') = pages
          /\ Len(history) < 20 => UndoHistory(history') = history
      ]_vars

C18_Witness ==
    /\ lastOp.op = "undo"
    /\ Len(history) = 3
    /\ Len(pages) = 2
    /\ pages # history[3]
    /\ draggedIndex = -1

\* C19: every undo with a non-empty history makes the most recent snapshot
\* current and leaves the older ones in place, so that consecutive undos
\* restore the sequences in reverse order of the mutations; an undo with
\* an empty history changes neither the sequence nor the history and
\* raises no error.
C19_UndoWalksBack ==
    [][lastOp'.op = "undo" =>
          IF Len(history) = 0
          THEN /\ pages' = pages
               /\ history' = history
               /\ processState' = processState
               /\ ~Crashed'
          ELSE /\ pages' = history[Len(history)]
               /\ Len(history') = Len(history) - 1
               /\ \A k \in 1..Len(history') : history'[k] = history[k]
      ]_vars

C19_Witness ==
    /\ lastOp.op = "undo"
    /\ Len(history) = 0
    /\ Len(pages) = 2
    /\ pages[1].originalPageIndex = 1
    /\ pages[2].originalPageIndex = 0

\* C20: an export whose rendering fails ends in one terminal error state
\* (not processing, a non-empty error message, no result URL), and in every
\* reachable state a result URL and an error are never present together.
C20_ErrorExcludesResult ==
    /\ [](~(processState.resultUrl # NoError /\ processState.error # NoError))
    /\ [][lastOp'.op = "exportFail" =>
             /\ ~processState'.isProcessing
             /\ processState'.error \notin {NoError, ""}
             /\ processState'.resultUrl = NoError
         ]_vars

\* C21: the progress shown stays within 0..100, and while exports are in
\* flight no progress report and no successful completion lowers it: it
\* goes from 0 at the start up to 100 on success, however the exports
\* were started and their callbacks interleave.
C21_ProgressNeverDecreases ==
    /\ [](processState.progress \in 0..100)
    /\ [][lastOp'.op = "process" => processState'.progress = 0]_vars
    /\ [][lastOp'.op = "exportOk" => processState'.progress = 100]_vars
    /\ [][lastOp'.op \in {"progress", "exportOk"}
             => processState'.progress >= processState.progress]_vars

\* C22: no step of a sequence edit (move, bulk delete, per-page delete,
\* insert, undo) changes isProcessing, progress, error or resultUrl, and
\* each leaves a sequence whose every element is a page descriptor.
C22_EditsNeverFail ==
    [][lastOp'.op \in {"drop", "bulkDelete", "deleteById", "insertBlank", "undo"}
          => /\ processState' = processState
             /\ \A k \in 1..Len(pages') : IsPageItem(pages'[k])
      ]_vars

\* C23: at most one export is in flight at any time.
C23_OneExportInFlight == Len(exports) <= 1

\* part is a run of consecutive elements of whole
IsRunOf(part, whole) ==
    \E a \in 0..Len(whole) :
        /\ a + Len(part) <= Len(whole)
        /\ \A k \in 1..Len(part) : part[k] = whole[a + k]

\* seq without its last element
Front(seq) == SubSeq(seq, 1, Len(seq) - 1)

\* the sequences handed to the exports in flight
ExportSnapshots(inFlight) == [k \in 1..Len(inFlight) |-> inFlight[k].pages]

\* C24: no step changes a snapshot that stays in the history or the
\* sequence of an export that stays in flight: the history after a step is
\* a run of the snapshots of before, with at most the sequence of before
\* the step pushed on top, and the sequences of the exports in flight are
\* those of before, with at most one dropped or the current one added.
C24_SnapshotsKeepContents ==
    [][/\ \/ IsRunOf(history', history)
           \/ /\ Len(history') >= 1
              /\ history'[Len(history')] = pages
              /\ IsRunOf(Front(history'), history)
        /\ \/ ExportSnapshots(exports') = ExportSnapshots(exports)
           \/ ExportSnapshots(exports') = Append(ExportSnapshots(exports), pages)
           \/ \E k \in 1..Len(exports) :
                  ExportSnapshots(exports') = SpliceOut(ExportSnapshots(exports), k - 1)
      ]_vars

C24_Witness ==
    /\ lastOp.op = "insertBlank"
    /\ Len(exports) = 1
    /\ exports[1].pages # pages
    /\ Len(history) = 1
    /\ exports[1].pages = history[1]
    /\ Len(pages) = 3

\* C25: switching imposition off on the imposition tab moves the active
\* mode to ORGANIZER in the same step; in every state active mode
\* IMPOSITION implies imposition is enabled; and an imposed export is only
\* started while imposition is enabled.
C25_ImpositionModeGuarded ==
    /\ [](activeMode = "IMPOSITION" => impositionEnabled)
    /\ [][(lastOp'.op = "toggle" /\ activeMode = "IMPOSITION")
             => (~impositionEnabled' /\ activeMode' = "ORGANIZER")]_vars
    /\ [][(lastOp'.op = "process" /\ lastOp'.arg = 1)
             => (impositionEnabled /\ exports'[Len(exports')].useImposition)]_vars

C25_Witness ==
    /\ lastOp = Op("toggle", 1)
    /\ ~impositionEnabled
    /\ activeMode = "ORGANIZER"
    /\ processState.resultUrl = ResultUrl(TRUE)

\* href={processState.resultUrl} download={`${impositionEnabled ? ...}`}:
\* the download link is there while a result URL is set on the export tab
DownloadOffered ==
    /\ ~Crashed
    /\ file # NoFile
    /\ activeMode = "EXPORT"
    /\ processState.resultUrl # NoError

\* impositionEnabled ? 'imposed_' : 'sequential_'
DownloadPrefix == IF impositionEnabled THEN "imposed_" ELSE "sequential_"

\* C27: whenever a result is offered for download, the prefix of its
\* download name is 'imposed_' exactly when the export that produced it
\* ran with imposition and 'sequential_' exactly when it ran without.
C27_DownloadNameMatchesExport ==
    DownloadOffered =>
        /\ DownloadPrefix = "imposed_" <=> processState.resultUrl = ResultUrl(TRUE)
        /\ DownloadPrefix = "sequential_" <=> processState.resultUrl = ResultUrl(FALSE)

\* every original descriptor of seq has a page index the loaded file has
WithinLoadedFile(seq) ==
    \A k \in 1..Len(seq) :
        (IsPageItem(seq[k]) /\ seq[k].type = "original")
            => seq[k].originalPageIndex \in 0..(file.pageCount - 1)

\* C26: in every reachable state every original descriptor of the current
\* sequence and of every history snapshot has a source page index within
\* [0, page count of the loaded file), overlapping loads included.
C26_OriginalsWithinLoadedFile ==
    /\ WithinLoadedFile(pages)
    /\ \A n \in 1..Len(history) : WithinLoadedFile(history[n])

C26_Witness ==
    /\ lastOp.op = "loadOk"
    /\ file.pageCount = 1
    /\ Len(pages) = 1
    /\ draggedIndex = 2
    /\ history = <<>>

====
